---- MODULE Spec2Model ----
(***************************************************************************)
(* Model of translate_markdown_for_slack and format_table_for_slack of     *)
(* slackbot.py.  A text is a sequence of one-character strings; a line is  *)
(* a text without "\n".  The cursor i and table_start keep Python's        *)
(* 0-based values, so line i of the source is lines[i + 1] here.           *)
(***************************************************************************)
EXTENDS Integers, Sequences, FiniteSets, TLC

VARIABLES input, text, matches, lines, result_lines, i, table_lines,
          table_start, rows, num_cols, col_widths, formatted_cells,
          formatted_rows, output, pc

vars == <<input, text, matches, lines, result_lines, i, table_lines,
          table_start, rows, num_cols, col_widths, formatted_cells,
          formatted_rows, output, pc>>

\* ---------------------------------------------------------------- bounds
MaxLen == 4
MaxBoldLen == 6
MaxRows == 2
MaxCells == 2

\* ------------------------------------------------------- string helpers
\* The characters str.strip() removes and the pattern class \s accepts: the
\* 29 characters for which str.isspace() holds.  Those that cannot be
\* written in a string of this language are named: "VT" is U+000B and
\* "U+hhhh" is the character with that code point.
Whitespace ==
    {" ", "\t", "\n", "VT", "\f", "\r",
     "U+001C", "U+001D", "U+001E", "U+001F", "U+0085", "U+00A0", "U+1680",
     "U+2000", "U+2001", "U+2002", "U+2003", "U+2004", "U+2005", "U+2006",
     "U+2007", "U+2008", "U+2009", "U+200A", "U+2028", "U+2029", "U+202F",
     "U+205F", "U+3000"}

Min(a, b) == IF a < b THEN a ELSE b

Max(a, b) == IF a > b THEN a ELSE b

Contains(s, c) == \E k \in 1..Len(s) : s[k] = c

StartsWith(s, c) == Len(s) > 0 /\ s[1] = c

EndsWith(s, c) == Len(s) > 0 /\ s[Len(s)] = c

RECURSIVE LStrip(_)
LStrip(s) ==
    IF s = <<>> \/ s[1] \notin Whitespace THEN s ELSE LStrip(Tail(s))

RECURSIVE RStrip(_)
RStrip(s) ==
    IF s = <<>> \/ s[Len(s)] \notin Whitespace THEN s
    ELSE RStrip(SubSeq(s, 1, Len(s) - 1))

Strip(s) == RStrip(LStrip(s))

\* str.split(c): the scan is at p and the current part began at start
RECURSIVE SplitFrom(_, _, _, _)
SplitFrom(s, c, start, p) ==
    IF p > Len(s) THEN <<SubSeq(s, start, Len(s))>>
    ELSE IF s[p] = c
         THEN <<SubSeq(s, start, p - 1)>> \o SplitFrom(s, c, p + 1, p + 1)
         ELSE SplitFrom(s, c, start, p + 1)

Split(s, c) == SplitFrom(s, c, 1, 1)

RECURSIVE Join(_, _)
Join(parts, sep) ==
    IF parts = <<>> THEN <<>>
    ELSE IF Len(parts) = 1 THEN parts[1]
    ELSE parts[1] \o sep \o Join(Tail(parts), sep)

LJust(s, w) == IF Len(s) >= w THEN s ELSE s \o [k \in 1..(w - Len(s)) |-> " "]

Dashes(n) == [k \in 1..n |-> "-"]

RemoveStars(cell) == SelectSeq(cell, LAMBDA ch : ch # "*")

\* The grave accent (U+0060) cannot be written in a string of this language;
\* the token below stands for that one character.
Backtick == "BACKTICK"

Fence == <<Backtick, Backtick, Backtick>>

\* ------------------------------------- line 128: the re.sub of bold spans
\* The lazy group: try the closing delimiter at e, else take t[e] as one
\* more content character, which the dot refuses when it is a line break.
RECURSIVE FindCloseDotAll(_, _)
FindCloseDotAll(t, e) ==
    IF e + 1 > Len(t) THEN 0
    ELSE IF t[e] = "*" /\ t[e + 1] = "*" THEN e
    ELSE FindCloseDotAll(t, e + 1)

RECURSIVE FindClose(_, _)
FindClose(t, e) ==
    IF e + 1 > Len(t) THEN 0
    ELSE IF t[e] = "*" /\ t[e + 1] = "*" THEN e
    ELSE IF t[e] = "\n" THEN 0
    ELSE FindClose(t, e + 1)

\* The successive matches, scanning from pos: <<start of "**", start of the
\* closing "**">>; after a match the scan resumes behind the closing "**".
RECURSIVE FindAll(_, _)
FindAll(t, pos) ==
    IF pos + 3 > Len(t) THEN <<>>
    ELSE IF t[pos] = "*" /\ t[pos + 1] = "*" /\ FindClose(t, pos + 2) # 0
         THEN LET e == FindClose(t, pos + 2)
              IN  <<<<pos, e>>>> \o FindAll(t, e + 2)
         ELSE FindAll(t, pos + 1)

\* The replacement (one star, group 1, one star) applied to the matches ms, copying from pos.
RECURSIVE Expand(_, _, _)
Expand(t, ms, pos) ==
    IF ms = <<>> THEN SubSeq(t, pos, Len(t))
    ELSE LET s == ms[1][1]
             e == ms[1][2]
         IN  SubSeq(t, pos, s - 1) \o <<"*">> \o SubSeq(t, s + 2, e - 1)
                 \o <<"*">> \o Expand(t, Tail(ms), e + 2)

\* ------------------------------------------------------ line predicates
\* line 139: the condition that opens a table block
IsTableStartLoose(line) ==
    /\ Contains(line, "|")
    /\ StartsWith(Strip(line), "|")

IsTableStart(line) ==
    /\ Contains(line, "|")
    /\ StartsWith(Strip(line), "|")
    /\ EndsWith(Strip(line), "|")

\* line 144: the condition under which the block keeps collecting
IsTableLineStrict(line) ==
    /\ Contains(line, "|")
    /\ StartsWith(Strip(line), "|")
    /\ EndsWith(Strip(line), "|")
    /\ Len(Strip(line)) > 1

IsTableLine(line) ==
    /\ Contains(line, "|")
    /\ StartsWith(Strip(line), "|")

SeparatorClass == Whitespace \cup {"-", "|", ":"}

\* line 148: the separator pattern matched against current_line: a pipe,
\* one or more of whitespace, dash, pipe, colon, and a final pipe
IsSeparatorLine(current_line) ==
    /\ Len(current_line) >= 3
    /\ current_line[1] = "|"
    /\ current_line[Len(current_line)] = "|"
    /\ \A k \in 2..(Len(current_line) - 1) : current_line[k] \in SeparatorClass

\* ------------------------------------------------ format_table_for_slack
\* line 180: split on the pipe, drop the first and last part, strip each
ParseCells(line) ==
    LET parts == Split(line, "|")
    IN  [j \in 1..(Len(parts) - 2) |-> Strip(parts[j + 1])]

ParseRows(tl) == [k \in 1..Len(tl) |-> ParseCells(tl[k])]

\* lines 191-195: the contribution of one row to the widths w
RECURSIVE WidthCellsRaw(_, _, _, _)
WidthCellsRaw(w, row, n, c) ==
    IF c > Len(row) THEN w
    ELSE IF c - 1 < n
         THEN WidthCellsRaw([w EXCEPT ![c] = Max(@, Len(row[c]))], row, n, c + 1)
         ELSE WidthCellsRaw(w, row, n, c + 1)

RECURSIVE WidthCells(_, _, _, _)
WidthCells(w, row, n, c) ==
    IF c > Len(row) THEN w
    ELSE IF c - 1 < n
         THEN WidthCells([w EXCEPT ![c] = Max(@, Len(RemoveStars(row[c])))],
                         row, n, c + 1)
         ELSE WidthCells(w, row, n, c + 1)

\* lines 188-195: the loop over the rows, from row k on
RECURSIVE WidthRows(_, _, _, _)
WidthRows(w, rs, n, k) ==
    IF k > Len(rs) THEN w
    ELSE WidthRows(WidthCells(w, rs[k], n, 1), rs, n, k + 1)

ColWidths(rs, n) == WidthRows([c \in 1..n |-> 0], rs, n, 1)

\* lines 200-207: the padded cells of one row
RECURSIVE FormatCellsUnguarded(_, _, _, _, _)
FormatCellsUnguarded(row, w, n, c, acc) ==
    IF c > Len(row) THEN acc
    ELSE IF c - 1 < n
         THEN FormatCellsUnguarded(row, w, n, c + 1,
                  Append(acc, LJust(RemoveStars(row[c]), w[c])))
         ELSE FormatCellsUnguarded(row, w, n, c + 1,
                  Append(acc, RemoveStars(row[c])))

RECURSIVE FormatCells(_, _, _, _, _)
FormatCells(row, w, n, c, acc) ==
    IF c > Len(row) THEN acc
    ELSE IF c - 1 < n
         THEN FormatCells(row, w, n, c + 1,
                  Append(acc, LJust(RemoveStars(row[c]), w[c])))
         ELSE FormatCells(row, w, n, c + 1, acc)

AllFormattedCells(rs, w, n) ==
    [k \in 1..Len(rs) |-> FormatCells(rs[k], w, n, 1, <<>>)]

\* lines 214-215
SeparatorRowPlain(w, n) == Join([c \in 1..n |-> Dashes(w[c])], <<"|">>)

SeparatorRow(w, n) == Join([c \in 1..n |-> Dashes(w[c])], <<"-", "|", "-">>)

\* lines 209-216
JoinCellsTight(cells) == Join(cells, <<"|">>)

JoinCells(cells) == Join(cells, <<" ", "|", " ">>)

\* lines 198-218: the rendered rows from row k on
RECURSIVE FormatRows(_, _, _, _, _)
FormatRows(rs, fc, w, n, k) ==
    IF k > Len(rs) THEN <<>>
    ELSE <<JoinCells(fc[k])>>
           \o (IF k - 1 = 0 /\ Len(rs) > 1 THEN <<SeparatorRow(w, n)>> ELSE <<>>)
           \o FormatRows(rs, fc, w, n, k + 1)

\* lines 154-158 (and 173-174): what a collected block adds to result_lines,
\* fr being the rows format_table_for_slack returns
BlockLinesUnguarded(tl, fr) == (<<Fence>> \o fr) \o <<Fence>>

BlockLines(tl, fr) ==
    IF tl # <<>> THEN (<<Fence>> \o fr) \o <<Fence>> ELSE <<>>

\* ---------------------------------------------------------------- inputs
Alphabet == {"|", "-", "*", "a", " ", "\n"}

BoldAlphabet == {"*", "a", "\n"}

CellChoices == {<<"a">>, <<"*", "b", "b", "*">>}

SeqsUpTo(S, n) == UNION {[1..k -> S] : k \in 0..n}

NonEmptySeqsUpTo(S, n) == UNION {[1..k -> S] : k \in 1..n}

\* a table row written out: a pipe, the cells separated by pipes, a pipe
RowLine(cells) == <<"|">> \o Join(cells, <<"|">>) \o <<"|">>

TableTexts ==
    {Join([k \in 1..Len(t) |-> RowLine(t[k])], <<"\n">>) :
        t \in NonEmptySeqsUpTo(NonEmptySeqsUpTo(CellChoices, MaxCells), MaxRows)}

NameAgeTable ==
    <<"|", "N", "a", "m", "e", "|", "A", "g", "e", "|", "\n",
      "|", "-", "-", "-", "|", "-", "-", "-", "|", "\n",
      "|", "B", "o", "b", "|", "3", "0", "|">>

SingleRowTable == <<"|", "a", "|", "b", "b", "|">>

BobTable ==
    <<"|", "*", "*", "B", "o", "b", "*", "*", "|", "x", "|", "\n",
      "|", "y", "|">>

RaggedTable ==
    <<"|", "a", "|", "b", "|", "\n", "|", "c", "|", "\n",
      "|", "d", "|", "e", "|", "f", "f", "|">>

MixedText ==
    <<"*", "*", "a", "*", "*", "\n", "|", "a", "|", "\n", "|", "-", "|", "\n",
      "|", "a", "\n", "*", "*", "a">>

\* lines and cells wrapped in whitespace other than the blank
VerticalTabTable == <<"VT", "|", "a", "|", "VT">>

VerticalTabSeparator ==
    <<"|", "a", "|", "\n", "|", "-", "VT", "-", "|", "\n", "|", "b", "|">>

NoBreakSpaceCells ==
    <<"|", "U+00A0", "a", "U+3000", "|", "b", "U+001F", "|", "\n",
      "U+2003", "|", "c">>

Inputs ==
    SeqsUpTo(Alphabet, MaxLen) \cup SeqsUpTo(BoldAlphabet, MaxBoldLen)
        \cup TableTexts
        \cup {NameAgeTable, SingleRowTable, BobTable, RaggedTable, MixedText,
              VerticalTabTable, VerticalTabSeparator, NoBreakSpaceCells}

\* ----------------------------------------------------------------- state
Init ==
    /\ input \in Inputs
    /\ text = input
    /\ matches = <<>>
    /\ lines = <<>>
    /\ result_lines = <<>>
    /\ i = 0
    /\ table_lines = <<>>
    /\ table_start = -1
    /\ rows = <<>>
    /\ num_cols = 0
    /\ col_widths = <<>>
    /\ formatted_cells = <<>>
    /\ formatted_rows = <<>>
    /\ output = <<>>
    /\ pc = "sub"

tableVars == <<rows, num_cols, col_widths, formatted_cells, formatted_rows>>

\* line 128: text = re.sub(...)
ReSub ==
    /\ pc = "sub"
    /\ \E ms \in {FindAll(text, 1)} :
          /\ matches' = ms
          /\ text' = Expand(text, ms, 1)
    /\ pc' = "split"
    /\ UNCHANGED <<input, lines, result_lines, i, table_lines, table_start,
                   tableVars, output>>

\* lines 131-133
SplitLines ==
    /\ pc = "split"
    /\ lines' = Split(text, "\n")
    /\ result_lines' = <<>>
    /\ i' = 0
    /\ pc' = "outer"
    /\ UNCHANGED <<input, text, matches, table_lines, table_start, tableVars,
                   output>>

\* lines 135-141: the loop head finds the start of a table
OpenTable ==
    /\ pc = "outer"
    /\ i < Len(lines)
    /\ IsTableStart(lines[i + 1])
    /\ table_lines' = <<>>
    /\ table_start' = i
    /\ pc' = "inner"
    /\ UNCHANGED <<input, text, matches, lines, result_lines, i, tableVars,
                   output>>

\* lines 135-139, 162-164: any other line is passed through
PassLine ==
    /\ pc = "outer"
    /\ i < Len(lines)
    /\ ~IsTableStart(lines[i + 1])
    /\ result_lines' = Append(result_lines, lines[i + 1])
    /\ i' = i + 1
    /\ UNCHANGED <<input, text, matches, lines, table_lines, table_start,
                   tableVars, output, pc>>

\* lines 144-151: one iteration of the collecting loop
CollectLine ==
    /\ pc = "inner"
    /\ i < Len(lines)
    /\ IsTableLine(lines[i + 1])
    /\ \E current_line \in {Strip(lines[i + 1])} :
          table_lines' = IF ~IsSeparatorLine(current_line)
                         THEN Append(table_lines, current_line)
                         ELSE table_lines
    /\ i' = i + 1
    /\ UNCHANGED <<input, text, matches, lines, result_lines, table_start,
                   tableVars, output, pc>>

\* lines 144, 153-161 with lines 169-218: the collecting loop ends and the
\* block is rendered; the bound names are the locals of format_table_for_slack
CloseTable ==
    /\ pc = "inner"
    /\ ~(i < Len(lines) /\ IsTableLine(lines[i + 1]))
    /\ IF table_lines # <<>>
       THEN \E rs \in {ParseRows(table_lines)} :
            \E n \in {Len(rs[1])} :
            \E w \in {ColWidths(rs, n)} :
            \E fc \in {AllFormattedCells(rs, w, n)} :
            \E fr \in {FormatRows(rs, fc, w, n, 1)} :
                /\ rows' = rs
                /\ num_cols' = n
                /\ col_widths' = w
                /\ formatted_cells' = fc
                /\ formatted_rows' = fr
                /\ result_lines' = result_lines \o BlockLines(table_lines, fr)
       ELSE /\ UNCHANGED tableVars
            /\ result_lines' = result_lines \o BlockLines(table_lines, <<>>)
    /\ pc' = "outer"
    /\ UNCHANGED <<input, text, matches, lines, i, table_lines, table_start,
                   output>>

\* lines 135, 166: the scan is over and the lines are joined
Finish ==
    /\ pc = "outer"
    /\ ~(i < Len(lines))
    /\ output' = Join(result_lines, <<"\n">>)
    /\ pc' = "done"
    /\ UNCHANGED <<input, text, matches, lines, result_lines, i, table_lines,
                   table_start, tableVars>>

Next ==
    \/ ReSub
    \/ SplitLines
    \/ OpenTable
    \/ PassLine
    \/ CollectLine
    \/ CloseTable
    \/ Finish

Spec == Init /\ [][Next]_vars

\* The function runs on one thread and every statement is followed by the
\* next one: a step that is enabled is taken.
SpecLive == Spec /\ WF_vars(Next)

TypeOK ==
    /\ pc \in {"sub", "split", "outer", "inner", "done"}
    /\ i \in 0..Len(lines)
    /\ table_start \in -1..Len(lines)

\* ================================================================ claims
\* a table row in the sense of the specification: the trimmed line both
\* starts and ends with a pipe
IsTableRow(line) == StartsWith(Strip(line), "|") /\ EndsWith(Strip(line), "|")

NonTableLines(ls) == SelectSeq(ls, LAMBDA l : ~IsTableRow(l))

\* a occurs in b as a subsequence (same elements, same order)
RECURSIVE IsSubseq(_, _)
IsSubseq(a, b) ==
    IF a = <<>> THEN TRUE
    ELSE IF b = <<>> THEN FALSE
    ELSE IF a[1] = b[1] THEN IsSubseq(Tail(a), Tail(b))
    ELSE IsSubseq(a, Tail(b))

\* C1: every line of the scanned text that is not a table row appears in
\* the output unchanged, and these lines keep their relative order: none is
\* dropped, altered or absorbed into a fenced block.
C1_NonTableLinesPreserved ==
    pc = "done" => IsSubseq(NonTableLines(lines), result_lines)

\* C2: the scan is total and terminates: a line that opens a block satisfies
\* the condition of the collecting loop, every iteration of the outer loop
\* moves the cursor forward, and the scan ends with the cursor at the number
\* of lines and an output string.
C2_ScanTerminates ==
    /\ [](pc = "inner" /\ i = table_start => IsTableLine(lines[i + 1]))
    /\ [][/\ (pc = "outer" /\ pc' = "outer" => i' = i + 1)
          /\ (pc = "inner" /\ pc' = "outer" => i' > table_start)]_vars
    /\ <>(pc = "done" /\ i = Len(lines))

C2_Witness ==
    /\ pc = "done"
    /\ i = Len(lines)
    /\ table_start >= 0
    /\ Strip(lines[table_start + 1]) = <<"|">>
    /\ Len(lines) >= 2

\* C3 as stated: a block of separator rows only adds exactly two fence
\* lines, with nothing between them, to the output.
C3_EmptyFenceEmitted ==
    [][pc = "inner" /\ pc' = "outer" /\ table_lines = <<>>
           => result_lines' = result_lines \o <<Fence, Fence>>]_vars

\* C3 amended: a block of separator rows only adds nothing to the output,
\* no fence line either.
C3_CollapsedBlockEmitsNothing ==
    [][pc = "inner" /\ pc' = "outer" /\ table_lines = <<>>
           => result_lines' = result_lines]_vars

C3_Witness ==
    /\ pc = "outer"
    /\ table_start >= 0
    /\ i > table_start
    /\ table_lines = <<>>
    /\ \A k \in (table_start + 1)..i : IsSeparatorLine(Strip(lines[k]))

\* the two characters at p are a bold delimiter
Delim(t, p) == p >= 1 /\ p + 1 <= Len(t) /\ t[p] = "*" /\ t[p + 1] = "*"

\* s and e are the delimiters of a complete bold span; its content may
\* hold a line break only when anyContent
BoldSpan(t, s, e, anyContent) ==
    /\ Delim(t, s)
    /\ Delim(t, e)
    /\ e >= s + 2
    /\ anyContent \/ \A j \in (s + 2)..(e - 1) : t[j] # "\n"

HasSpanFrom(t, s, anyContent) ==
    \E e \in (s + 2)..(Len(t) - 1) : BoldSpan(t, s, e, anyContent)

PrevEnd(ms, k) == IF k = 1 THEN 1 ELSE ms[k - 1][2] + 2

\* t without one star of each delimiter of the spans ms
WithoutOneStar(t, ms) ==
    LET dropped == {ms[k][1] : k \in 1..Len(ms)} \cup {ms[k][2] + 1 : k \in 1..Len(ms)}
        kept == {j \in 1..Len(t) : j \notin dropped}
        Nth(n) == CHOOSE j \in kept : Cardinality({x \in kept : x < j}) = n - 1
    IN  [n \in 1..Cardinality(kept) |-> t[Nth(n)]]

BoldRewriteHolds(anyContent) ==
    pc # "sub" =>
        /\ \A k \in 1..Len(matches) :
              LET s == matches[k][1]
                  e == matches[k][2]
              IN  /\ BoldSpan(input, s, e, anyContent)
                  /\ s >= PrevEnd(matches, k)
                  /\ \A j \in (s + 2)..(e - 1) : ~Delim(input, j)
                  /\ \A s2 \in PrevEnd(matches, k)..(s - 1) :
                        ~HasSpanFrom(input, s2, anyContent)
        /\ \A s2 \in PrevEnd(matches, Len(matches) + 1)..Len(input) :
              ~HasSpanFrom(input, s2, anyContent)
        /\ text = WithoutOneStar(input, matches)

\* C4 as stated: the spans found, left to right and each as short as
\* possible, are exactly the complete bold spans, whose content may be any
\* characters, a line break included; each loses one star per delimiter and
\* the rest of the text is identical.
C4_RewriteAnyContent == BoldRewriteHolds(TRUE)

\* C4 amended: the same, for the complete bold spans whose content holds no
\* line break; a span only completed on a later line is left unchanged.
C4_RewriteWithinLine == BoldRewriteHolds(FALSE)

C4_Witness ==
    /\ pc = "done"
    /\ Len(matches) >= 1
    /\ text # input
    /\ \E p \in 1..Len(input), q \in 1..Len(input) :
          /\ BoldSpan(input, p, q, TRUE)
          /\ ~BoldSpan(input, p, q, FALSE)
          /\ q >= PrevEnd(matches, Len(matches) + 1)

C5_Header == <<"N", "a", "m", "e", " ", "|", " ", "A", "g", "e">>

C5_Row == <<"B", "o", "b", " ", " ", "|", " ", "3", "0", " ">>

\* C5 as stated: the name and age table renders to a fence, the header,
\* a separator of five dashes, a pipe and five dashes, the row, a fence.
C5_SeparatorFivePipeFive ==
    pc = "done" /\ input = NameAgeTable =>
        result_lines = <<Fence, C5_Header, <<"-", "-", "-", "-", "-", "|", "-", "-", "-", "-", "-">>, C5_Row, Fence>>

\* C5 amended: the name and age table renders to a fence, the header, a
\* separator of five dashes, a pipe and four dashes (the runs of 4 and 3
\* joined with dash pipe dash), the row, a fence.
C5_SeparatorFivePipeFour ==
    pc = "done" /\ input = NameAgeTable =>
        /\ result_lines = <<Fence, C5_Header, <<"-", "-", "-", "-", "-", "|", "-", "-", "-", "-">>, C5_Row, Fence>>
        /\ col_widths = <<4, 3>>

C5_Witness ==
    pc = "done" /\ input = NameAgeTable /\ Len(rows) = 2 /\ Len(lines) = 3

\* C6 as stated: the single row renders to a fence, the line a, two
\* spaces, pipe, space, bb, and a fence, with no separator line.
C6_TwoSpacesBeforePipe ==
    pc = "done" /\ input = SingleRowTable =>
        result_lines = <<Fence, <<"a", " ", " ", "|", " ", "b", "b">>, Fence>>

\* C6 amended: the single row renders to a fence, the line a, one space,
\* pipe, space, bb (widths 1 and 2), and a fence, with no separator line.
C6_OneSpaceBeforePipe ==
    pc = "done" /\ input = SingleRowTable =>
        /\ result_lines = <<Fence, <<"a", " ", "|", " ", "b", "b">>, Fence>>
        /\ col_widths = <<1, 2>>

C6_Witness ==
    pc = "done" /\ input = SingleRowTable /\ Len(rows) = 1

\* out is s followed by spaces up to the width w
IsLeftJustified(out, s, w) ==
    /\ Len(out) = Max(w, Len(s))
    /\ SubSeq(out, 1, Len(s)) = s
    /\ \A j \in (Len(s) + 1)..Len(out) : out[j] = " "

StarCount(cell) == Cardinality({j \in 1..Len(cell) : cell[j] = "*"})

\* C7: every rendered row has exactly min(num_cols, its cell count) cells,
\* each its own cell without stars, left-justified to the width of its
\* column; a short row renders its own cells only, the cells of a long row
\* beyond num_cols are dropped, and the rendering completes with one line
\* per row (and the separator line when there is more than one row).
C7_RaggedRowsRender ==
    rows # <<>> =>
        /\ Len(formatted_cells) = Len(rows)
        /\ \A k \in 1..Len(rows) :
              /\ Len(formatted_cells[k]) = Min(num_cols, Len(rows[k]))
              /\ \A c \in 1..Len(formatted_cells[k]) :
                    /\ StarCount(formatted_cells[k][c]) = 0
                    /\ Len(formatted_cells[k][c]) = col_widths[c]
                    /\ IsLeftJustified(formatted_cells[k][c],
                           SelectSeq(rows[k][c], LAMBDA ch : ch # "*"),
                           col_widths[c])
        /\ Len(formatted_rows) = Len(rows) + (IF Len(rows) > 1 THEN 1 ELSE 0)

C7_Witness ==
    /\ pc = "done"
    /\ \E k \in 1..Len(rows) : Len(rows[k]) < num_cols /\ Len(rows[k]) >= 1
    /\ \E k \in 1..Len(rows) : Len(rows[k]) > num_cols
    /\ Len(formatted_rows) = Len(rows) + 1

\* the text has two bold delimiters that do not overlap
HasBoldPair(t) ==
    \E p \in 1..Len(t), q \in 1..Len(t) : q >= p + 2 /\ Delim(t, p) /\ Delim(t, q)

NoTableRow(t) ==
    \A k \in 1..Len(Split(t, "\n")) : ~IsTableRow(Split(t, "\n")[k])

\* C8: on a text with no bold pair and no table row the output equals the
\* input exactly.
C8_IdentityOnPlainText ==
    pc = "done" /\ ~HasBoldPair(input) /\ NoTableRow(input) => output = input

C8_Witness ==
    /\ pc = "done"
    /\ ~HasBoldPair(input)
    /\ NoTableRow(input)
    /\ Len(lines) >= 2
    /\ Contains(input, "|")
    /\ Contains(input, "*")
    /\ output = input

\* C9: a block holds qualifying lines only: every line collected into the
\* current block has a trimmed form that both starts and ends with a pipe.
C9_BlockHoldsOnlyTableRows ==
    pc = "inner" => \A k \in table_start..(i - 1) : IsTableRow(lines[k + 1])

PipeCount(line) == Cardinality({j \in 1..Len(line) : line[j] = "|"})

SetMax(S) == CHOOSE m \in S : \A x \in S : x <= m

\* the lengths, stars not counted, of the cells the rows have in column c
CleanLengths(c) ==
    {Len(rows[k][c]) - StarCount(rows[k][c]) :
        k \in {r \in 1..Len(rows) : c <= Len(rows[r])}}

\* C10: num_cols is the cell count of the first surviving row, and the
\* width of each column below num_cols is the largest length, stars not
\* counted, of the cells the rows have in that column (0 if all are empty);
\* cells beyond num_cols affect no width; the cell *Bob* counts 3.
C10_ColumnWidths ==
    /\ (pc \in {"outer", "done"} /\ table_lines # <<>> =>
           /\ Len(rows) = Len(table_lines)
           /\ num_cols = PipeCount(table_lines[1]) - 1)
    /\ (rows # <<>> =>
           /\ num_cols = Len(rows[1])
           /\ Len(col_widths) = num_cols
           /\ \A c \in 1..num_cols : col_widths[c] = SetMax(CleanLengths(c) \cup {0}))
    /\ (pc = "done" /\ input = BobTable => col_widths = <<3, 1>>)

C10_Witness ==
    /\ pc = "done"
    /\ input = BobTable
    /\ rows[1][1] = <<"*", "B", "o", "b", "*">>
    /\ Len(rows[2]) < num_cols

====
